---- MODULE Spec2Model ----
(***************************************************************************)
(* The queue worker of q_get_videos.py (run_consumer / on_message), its    *)
(* metadata store (load_metadata / save_metadata), its error log and its   *)
(* failure classification (is_timeout_error / is_rate_limit_error),        *)
(* together with the broker's side of the consumer contract               *)
(* (basic_qos(prefetch_count=1), basic_consume(auto_ack=False)).           *)
(*                                                                         *)
(* Text is modelled as a sequence of one-character strings, so that        *)
(* lower(), strip(), split() and the `in` substring test are computed,     *)
(* not assumed.                                                            *)
(***************************************************************************)
EXTENDS Integers, Sequences, FiniteSets, TLC

-----------------------------------------------------------------------------
(* Bounds of the model *)

\* longest initial queue
MaxQueue == 3
\* longest __cause__ chain below a failure, in the classifier's specification
MaxCauseDepth == 2

-----------------------------------------------------------------------------
(* Text *)

UPPER == <<"A", "B", "C", "D", "E", "F", "G", "H", "I", "J", "K", "L", "M", "N", "O", "P", "Q", "R", "S", "T", "U", "V", "W", "X", "Y", "Z">>
LOWER == <<"a", "b", "c", "d", "e", "f", "g", "h", "i", "j", "k", "l", "m", "n", "o", "p", "q", "r", "s", "t", "u", "v", "w", "x", "y", "z">>
WHITESPACE == {" ", "\t", "\n", "\r"}

\* Python's None where a text is expected (no text has this element)
None == <<"None">>

\* str.lower() on one character
LowerChar(c) ==
    IF \E i \in 1..Len(UPPER) : UPPER[i] = c
    THEN LOWER[CHOOSE i \in 1..Len(UPPER) : UPPER[i] = c]
    ELSE c

\* In the definitions below an argument that is used more than once is first
\* given a name by `t \in {s}`, so that it is evaluated once.

\* str.lower()
lower(s) == CHOOSE r \in {[i \in 1..Len(t) |-> LowerChar(t[i])] : t \in {s}} : TRUE

\* `sub in s`
Contains(s, sub) ==
    \E t \in {s} :
        \E i \in 0..(Len(t) - Len(sub)) : SubSeq(t, i + 1, i + Len(sub)) = sub

\* index of the first occurrence of sub in s (s.find(sub) + 1), 0 when absent
Find(s, sub) ==
    CHOOSE r \in
        { IF Contains(t, sub)
          THEN CHOOSE i \in 1..(Len(t) - Len(sub) + 1) :
                  /\ SubSeq(t, i, i + Len(sub) - 1) = sub
                  /\ \A j \in 1..(i - 1) : SubSeq(t, j, j + Len(sub) - 1) # sub
          ELSE 0 : t \in {s} } : TRUE

\* s.split(sep, 1)[1], for s that contains sep
AfterFirst(s, sep) ==
    CHOOSE r \in {SubSeq(t, Find(t, sep) + Len(sep), Len(t)) : t \in {s}} : TRUE

\* s.split(sep)[0]
BeforeFirst(s, sep) ==
    CHOOSE r \in
        { IF Contains(t, sep) THEN SubSeq(t, 1, Find(t, sep) - 1) ELSE t
          : t \in {s} } : TRUE

RECURSIVE lstrip(_)
lstrip(s) ==
    CHOOSE r \in
        { IF t # <<>> /\ Head(t) \in WHITESPACE THEN lstrip(Tail(t)) ELSE t
          : t \in {s} } : TRUE

RECURSIVE rstrip(_)
rstrip(s) ==
    CHOOSE r \in
        { IF t # <<>> /\ t[Len(t)] \in WHITESPACE
          THEN rstrip(SubSeq(t, 1, Len(t) - 1))
          ELSE t : t \in {s} } : TRUE

\* str.strip()
strip(s) == rstrip(lstrip(s))

\* `a or b` on texts: a unless it is None or empty
OrText(a, b) == CHOOSE r \in {IF t = None \/ t = <<>> THEN b ELSE t : t \in {a}} : TRUE

WATCH_V == <<"w", "a", "t", "c", "h", "?", "v", "=">>
YOUTU_BE == <<"y", "o", "u", "t", "u", ".", "b", "e", "/">>
UNKNOWN == <<"u", "n", "k", "n", "o", "w", "n">>

\* q_get_videos.py:64-70
video_id_from_url(url) ==
    CHOOSE r \in
        { IF Contains(u, WATCH_V)
          THEN strip(BeforeFirst(AfterFirst(u, WATCH_V), <<"&">>))
          ELSE IF Contains(u, YOUTU_BE)
          THEN strip(BeforeFirst(AfterFirst(u, YOUTU_BE), <<"?">>))
          ELSE None : u \in {url} } : TRUE

-----------------------------------------------------------------------------
(* UTF-8: str.encode("utf-8") in the producer, bytes.decode("utf-8") in the *)
(* worker. A byte is a number in 0..255. A character outside ASCII is      *)
(* written by its code point, as in "U+00E9" (so is the grave accent).     *)

\* the characters of code points 32..126, in order
ASCII == <<" ", "!", "\"", "#", "$", "%", "&", "'", "(", ")", "*", "+", ",", "-", ".", "/", "0", "1", "2", "3", "4", "5", "6", "7", "8", "9", ":", ";", "<", "=", ">", "?", "@", "A", "B", "C", "D", "E", "F", "G", "H", "I", "J", "K", "L", "M", "N", "O", "P", "Q", "R", "S", "T", "U", "V", "W", "X", "Y", "Z", "[", "\\", "]", "^", "_", "U+0060", "a", "b", "c", "d", "e", "f", "g", "h", "i", "j", "k", "l", "m", "n", "o", "p", "q", "r", "s", "t", "u", "v", "w", "x", "y", "z", "{", "|", "}", "~">>

E_ACUTE == "U+00E9"

\* ord(c)
CodePoint(c) ==
    IF c = "\t" THEN 9
    ELSE IF c = "\n" THEN 10
    ELSE IF c = "\r" THEN 13
    ELSE IF c = E_ACUTE THEN 233
    ELSE 31 + (CHOOSE i \in 1..Len(ASCII) : ASCII[i] = c)

\* chr(n)
CharOf(n) ==
    IF n = 9 THEN "\t"
    ELSE IF n = 10 THEN "\n"
    ELSE IF n = 13 THEN "\r"
    ELSE IF n = 233 THEN E_ACUTE
    ELSE ASCII[n - 31]

\* the UTF-8 bytes of one character below U+0800
EncodeChar(c) ==
    LET n == CodePoint(c)
    IN IF n < 128 THEN <<n>> ELSE <<192 + (n \div 64), 128 + (n % 64)>>

RECURSIVE encode(_)
\* str.encode("utf-8")
encode(s) == IF s = <<>> THEN <<>> ELSE EncodeChar(Head(s)) \o encode(Tail(s))

RECURSIVE decode(_)
\* bytes.decode("utf-8"), on the UTF-8 bytes of characters below U+0800
decode(b) ==
    CHOOSE r \in
        { IF x = <<>> THEN <<>>
          ELSE IF x[1] < 128 THEN <<CharOf(x[1])>> \o decode(Tail(x))
          ELSE <<CharOf((x[1] - 192) * 64 + (x[2] - 128))>>
                  \o decode(SubSeq(x, 3, Len(x))) : x \in {b} } : TRUE

-----------------------------------------------------------------------------
(* Failures and their classification *)

SIG_TIMEOUT == <<"t", "i", "m", "e", "o", "u", "t">>
SIG_TIMED_OUT == <<"t", "i", "m", "e", "d", " ", "o", "u", "t">>
SIG_429 == <<"4", "2", "9">>
SIG_RATE_LIMIT == <<"r", "a", "t", "e", " ", "l", "i", "m", "i", "t">>
SIG_TOO_MANY == <<"t", "o", "o", " ", "m", "a", "n", "y", " ", "r", "e", "q", "u", "e", "s", "t", "s">>

MSG_READ_TIMED_OUT == <<"R", "e", "a", "d", " ", "t", "i", "m", "e", "d", " ", "o", "u", "t">>
MSG_HTTP_429 == <<"H", "T", "T", "P", " ", "E", "r", "r", "o", "r", " ", "4", "2", "9", ":", " ", "T", "o", "o", " ", "M", "a", "n", "y", " ", "R", "e", "q", "u", "e", "s", "t", "s">>
MSG_UNAVAILABLE == <<"V", "i", "d", "e", "o", " ", "u", "n", "a", "v", "a", "i", "l", "a", "b", "l", "e">>
MSG_CONN_TIMEOUT == <<"C", "o", "n", "n", "e", "c", "t", "i", "o", "n", " ", "T", "I", "M", "E", "O", "U", "T">>
MSG_RATE_LIMIT == <<"R", "a", "t", "e", " ", "l", "i", "m", "i", "t", " ", "r", "e", "a", "c", "h", "e", "d">>
MSG_BOTH == <<"4", "2", "9", " ", "a", "f", "t", "e", "r", " ", "t", "i", "m", "e", "o", "u", "t">>
MSG_DECODE == <<"i", "n", "v", "a", "l", "i", "d", " ", "s", "t", "a", "r", "t", " ", "b", "y", "t", "e">>
MSG_NO_APPEND == <<"n", "o", " ", "a", "t", "t", "r", "i", "b", "u", "t", "e", " ", "'", "a", "p", "p", "e", "n", "d", "'">>
MSG_NO_SPACE == <<"N", "o", " ", "s", "p", "a", "c", "e", " ", "l", "e", "f", "t", " ", "o", "n", " ", "d", "e", "v", "i", "c", "e">>
MSG_STREAM_LOST == <<"S", "t", "r", "e", "a", "m", " ", "c", "o", "n", "n", "e", "c", "t", "i", "o", "n", " ", "l", "o", "s", "t">>
MSG_STREAM_TIMED_OUT == <<"S", "t", "r", "e", "a", "m", " ", "c", "o", "n", "n", "e", "c", "t", "i", "o", "n", " ", "l", "o", "s", "t", ":", " ", "t", "i", "m", "e", "d", " ", "o", "u", "t">>

\* `__cause__` of a failure that has none, and `e` when nothing was caught
NoCause == [type |-> "None"]

\* the exception classes `isinstance(exc, (socket.timeout, TimeoutError))` accepts
TimeoutTypes == {"socket.timeout", "TimeoutError"}

\* An exception: its class, its `msg` attribute (None when it has none), its
\* str() and its __cause__.
Failure(type, msg, text, cause) ==
    [type |-> type, msg |-> msg, str |-> text, cause |-> cause]

\* (getattr(exc, "msg", None) or str(exc)).lower()    q_get_videos.py:77, 88
MessageOf(exc) == lower(OrText(exc.msg, exc.str))

RECURSIVE is_timeout_error(_)
\* q_get_videos.py:73-83
is_timeout_error(exc) ==
    IF exc.type \in TimeoutTypes THEN TRUE
    ELSE IF Contains(MessageOf(exc), SIG_TIMEOUT) \/ Contains(MessageOf(exc), SIG_TIMED_OUT)
    THEN TRUE
    ELSE IF exc.cause # NoCause /\ is_timeout_error(exc.cause) THEN TRUE
    ELSE FALSE

RECURSIVE is_rate_limit_error(_)
\* q_get_videos.py:86-94
is_rate_limit_error(exc) ==
    IF \/ Contains(MessageOf(exc), SIG_429)
       \/ Contains(MessageOf(exc), SIG_RATE_LIMIT)
       \/ Contains(MessageOf(exc), SIG_TOO_MANY)
    THEN TRUE
    ELSE IF exc.cause # NoCause /\ is_rate_limit_error(exc.cause) THEN TRUE
    ELSE FALSE

\* mutant of Verdict: the rate-limit test is made before the timeout test
VerdictRateLimitFirst(exc) ==
    IF is_rate_limit_error(exc) THEN "RateLimited"
    ELSE IF is_timeout_error(exc) THEN "Timeout"
    ELSE "Other"

\* the order of the tests in the except clause    q_get_videos.py:186-199
Verdict(exc) ==
    IF is_timeout_error(exc) THEN "Timeout"
    ELSE IF is_rate_limit_error(exc) THEN "RateLimited"
    ELSE "Other"

-----------------------------------------------------------------------------
(* Payloads, fetch results, records *)

\* the texts of the tasks; a message body is the UTF-8 bytes of one
URL_AAA == <<"h", "t", "t", "p", "s", ":", "/", "/", "x", "/", "w", "a", "t", "c", "h", "?", "v", "=", "A", "A", "A">>
URL_BBB == <<"h", "t", "t", "p", "s", ":", "/", "/", "x", "/", "w", "a", "t", "c", "h", "?", "v", "=", "B", "B", "B">>
BLANK == <<>>
SPACES == <<" ", "\n">>

\* the message bodies the producer has left in the queue
Payloads == {encode(URL_AAA), encode(URL_BBB), encode(BLANK), encode(SPACES)}

RECURSIVE SeqsUpTo(_, _)
\* all sequences over S of length at most n
SeqsUpTo(S, n) ==
    IF n = 0 THEN {<<>>}
    ELSE LET shorter == SeqsUpTo(S, n - 1)
         IN shorter \cup {Append(q, x) : q \in {r \in shorter : Len(r) = n - 1}, x \in S}

\* JSON null where a number is expected (duration)
NoDuration == -1

\* what ydl.extract_info returns: a falsy value (present = FALSE) or a dict
NoInfo ==
    [present |-> FALSE, id |-> None, channel |-> None, uploader |-> None,
     duration |-> NoDuration, title |-> None, description |-> None]

\* the dict the platform returns for a url: with its id, or with no "id" key
InfosFor(u) ==
    { [present |-> TRUE, id |-> i, channel |-> None, uploader |-> <<"u", "p">>,
       duration |-> 60, title |-> <<"T">>, description |-> <<" ", "d", "\n">>]
      : i \in {video_id_from_url(u), None} }

\* the value None of `meta`
NoMeta ==
    [id |-> None, channel |-> None, duration |-> NoDuration, title |-> None,
     description |-> None]

\* q_get_videos.py:128-146, on the value extract_info returned
download_and_collect_metadata(info, u) ==
    IF ~info.present THEN NoMeta
    ELSE [id |-> OrText(info.id, video_id_from_url(u)),
          channel |-> OrText(OrText(info.channel, info.uploader), <<>>),
          duration |-> info.duration,
          title |-> OrText(info.title, <<>>),
          description |-> strip(OrText(info.description, <<>>))]

\* the record an earlier run of the worker saved for URL_AAA (a run that was
\* stopped before its ack leaves the task in the queue and this record in the
\* store)
REC_AAA ==
    [id |-> <<"A", "A", "A">>, channel |-> <<"u", "p">>, duration |-> 60,
     title |-> <<"T">>, description |-> <<"d">>]

-----------------------------------------------------------------------------
(* The store document *)

\* Python values json.loads can return / `records` can hold
PyList(items) == [t |-> "list", items |-> items]
PyDict == [t |-> "dict", items |-> <<>>]
PyNone == [t |-> "None", items |-> <<>>]

\* The file downloaded_videos.json: missing, bytes that are not UTF-8, text
\* that is not JSON (blank included), or the JSON text of a value.
Doc(kind, text, value) == [kind |-> kind, text |-> text, value |-> value]
DocMissing == Doc("missing", <<>>, PyNone)
DocUndecodable == Doc("undecodable", <<>>, PyNone)
DocText(text) == Doc("text", text, PyNone)
DocJson(value) == Doc("json", <<>>, value)

\* what a write that failed part-way leaves: open(..., "w") has truncated the
\* file, json.dump has written none or some of its chunks
TruncatedDocs == {DocText(<<>>), DocText(<<"[", "\n", " ", " ", "{">>)}

InitialDocs ==
    { DocMissing, DocText(SPACES), DocText(<<"[", "\n", " ", " ", "{">>),
      DocUndecodable, DocJson(PyDict), DocJson(PyList(<<REC_AAA>>)) }

UnicodeDecodeError == Failure("UnicodeDecodeError", None, MSG_DECODE, NoCause)
AttributeError == Failure("AttributeError", None, MSG_NO_APPEND, NoCause)

Returned(value) == [raised |-> FALSE, exc |-> NoCause, value |-> value]
Raised(e) == [raised |-> TRUE, exc |-> e, value |-> PyNone]

\* q_get_videos.py:46-56; oserror: open() or read() raises OSError
load_metadata(doc, oserror) ==
    IF doc.kind = "missing" THEN Returned(PyList(<<>>))
    ELSE IF oserror THEN Returned(PyList(<<>>))
    ELSE IF doc.kind = "undecodable" THEN Raised(UnicodeDecodeError)
    ELSE IF doc.kind = "text"
    THEN (IF strip(doc.text) = <<>> THEN Returned(PyList(<<>>))
          ELSE Returned(PyList(<<>>)))
    ELSE Returned(doc.value)

\* mutant of save_metadata: the write keeps only the record appended last
save_metadata_last_only(recs) ==
    DocJson(IF recs.t = "list" /\ recs.items # <<>>
            THEN PyList(<<recs.items[Len(recs.items)]>>)
            ELSE recs)

\* q_get_videos.py:59-61, a write that completes
save_metadata(recs) == DocJson(recs)

\* the records a reader of the store finds in it
RecordsIn(doc) ==
    IF doc.kind = "json" /\ doc.value.t = "list" THEN doc.value.items ELSE <<>>

WellFormedArray(doc) == doc.kind = "json" /\ doc.value.t = "list"

\* a store with no records in it: no file, a blank file, or the empty array
EmptyStore(doc) ==
    \/ doc.kind = "missing"
    \/ doc.kind = "text" /\ strip(doc.text) = <<>>
    \/ doc = DocJson(PyList(<<>>))

LOG_DETAIL_MAX == 200
LOG_DETAIL_KEEP == 197

\* str.replace("\n", " ")
ReplaceNewlines(s) ==
    CHOOSE r \in {[i \in 1..Len(t) |-> IF t[i] = "\n" THEN " " ELSE t[i]] : t \in {s}} : TRUE

\* q_get_videos.py:99-102: the line log_error writes, without its timestamp
LogLine(vid, error) ==
    CHOOSE r \in
        { [video_id |-> vid,
           detail |-> IF Len(detail) > LOG_DETAIL_MAX
                      THEN SubSeq(detail, 1, LOG_DETAIL_KEEP) \o <<".", ".", ".">>
                      ELSE detail]
          : detail \in {ReplaceNewlines(strip(OrText(error.msg, error.str)))} } : TRUE

-----------------------------------------------------------------------------
(* State *)

VARIABLES
    queue,      \* broker: the messages ready in the durable queue, head first
    unacked,    \* broker: the deliveries handed to the consumer and not yet acked or nacked
    inbox,      \* consumer: deliveries received and not yet given to on_message
    nextTag,    \* broker: the next delivery tag of the channel
    consuming,  \* the consumer is registered (basic_consume) and not cancelled
    linkUp,     \* the connection to the broker is open
    declared,   \* broker: how the queue was declared ("no" while it was not)
    store,      \* the file downloaded_videos.json
    errlog,     \* the lines of download_errors.log
    pc,         \* where the worker process is
    delivery,   \* on_message: method.delivery_tag and body
    url,        \* on_message: url
    video_id,   \* on_message: video_id
    meta,       \* on_message: meta
    records,    \* on_message: records
    exc,        \* on_message: e
    timeout_occurred,
    rate_limit_occurred,
    exitStatus, \* the exit status of the worker process, NotExited while it runs
    links,      \* producer: the value json.load returned for videos_1.json
    cursor,     \* producer: the position of `for url in links`
    published,  \* producer: published
    ppc,        \* where the producer process is
    sent,       \* history: the basic_publish calls of the producer, in order
    att,        \* history: what happened to the delivery on_message was last called with
    outcomes,   \* history: how each delivery of this run ended, in order
    streak,     \* history: the run started on an empty or missing store, and
                \* every delivery so far was a fetch that returned a record, followed
                \* by a load, an append and a save with no I/O failure
    arrived     \* history: while streak holds, the ids of those records, in order

broker == <<queue, unacked, inbox, nextTag, consuming, linkUp>>
locals == <<delivery, url, video_id, meta, records, exc>>
flags == <<timeout_occurred, rate_limit_occurred>>
hist == <<streak, arrived>>
producer == <<declared, links, cursor, published, ppc, sent>>
worker == <<unacked, inbox, nextTag, consuming, linkUp, store, errlog, pc,
            delivery, url, video_id, meta, records, exc, timeout_occurred,
            rate_limit_occurred, exitStatus, att, outcomes, streak, arrived>>
vars == <<queue, unacked, inbox, nextTag, consuming, linkUp, declared, store,
          errlog, pc, delivery, url, video_id, meta, records, exc,
          timeout_occurred, rate_limit_occurred, exitStatus, links, cursor,
          published, ppc, sent, att, outcomes, streak, arrived>>

NotExited == 0 - 1

\* basic_qos(prefetch_count=1)    q_get_videos.py:160
prefetch_count == 1
\* basic_consume(auto_ack=False)    q_get_videos.py:207
auto_ack == FALSE
\* q_get_videos.py:32
DELAY_BETWEEN_DOWNLOADS_SEC == 5

NoDelivery == [tag |-> 0, body |-> <<>>]

\* gap: the delay taken between the resolution of the delivery before this one
\* and the receipt of this one; raw: the body, when it was empty after trimming
NoAttempt ==
    [tag |-> 0, empty |-> FALSE, fetched |-> "no", raisedAt |-> "nowhere",
     verdict |-> "None", exc |-> NoCause, acks |-> 0, nacks |-> 0, requeue |-> TRUE,
     slept |-> 0, gap |-> 0, raw |-> <<>>]

NewAttempt(d) == [NoAttempt EXCEPT !.tag = d.tag, !.gap = att.slept]

\* how a delivery ended: an empty no-op, a record saved and acked, a fetch that
\* returned nothing, or the verdict on the failure caught
Outcome(kind) ==
    [id |-> video_id, kind |-> kind, at |-> att.raisedAt, gap |-> att.gap]

\* the failures the fetch raises
FetchFailures ==
    { Failure("DownloadError", MSG_UNAVAILABLE, MSG_UNAVAILABLE, NoCause),
      Failure("DownloadError", MSG_HTTP_429, MSG_HTTP_429, NoCause),
      Failure("DownloadError", MSG_UNAVAILABLE, MSG_UNAVAILABLE,
              Failure("URLError", None, MSG_READ_TIMED_OUT, NoCause)) }

\* the failures a write of the store raises
SaveFailures == { Failure("OSError", None, MSG_NO_SPACE, NoCause) }

\* the failures basic_ack raises when the connection is lost under it
AckFailures ==
    { Failure("StreamLostError", None, MSG_STREAM_LOST, NoCause),
      Failure("StreamLostError", None, MSG_STREAM_TIMED_OUT, NoCause) }

-----------------------------------------------------------------------------
(* The broker's side of basic_ack / basic_nack / a closed connection *)

\* the deliveries left unacknowledged once `tag` is acked or nacked
Settled(tag) == {d \in unacked : d.tag # tag}

RECURSIVE BodiesOf(_)
\* the bodies of a set of deliveries, lowest tag first
BodiesOf(ds) ==
    IF ds = {} THEN <<>>
    ELSE LET d == CHOOSE x \in ds : \A y \in ds : x.tag <= y.tag
         IN <<d.body>> \o BodiesOf(ds \ {d})

\* the queue once the deliveries ds are requeued: back at the head
Requeued(ds) == BodiesOf(ds) \o queue

\* the streak of successful fetches is over
Broken ==
    /\ streak' = FALSE
    /\ arrived' = <<>>

ResetLocals ==
    /\ delivery' = NoDelivery
    /\ url' = <<>>
    /\ video_id' = <<>>
    /\ meta' = NoMeta
    /\ records' = PyNone
    /\ exc' = NoCause

-----------------------------------------------------------------------------
(* Initial state: the producer has run; run_consumer has declared the      *)
(* queue, set the prefetch limit, registered on_message and entered        *)
(* start_consuming. The queue and the store are what the producer and      *)
(* earlier runs of the worker left.                                        *)

WorkerStarted ==
    /\ unacked = {}
    /\ inbox = <<>>
    /\ nextTag = 1
    /\ consuming = TRUE
    /\ linkUp = TRUE
    /\ declared = "durable"
    /\ pc = "idle"
    /\ delivery = NoDelivery
    /\ url = <<>>
    /\ video_id = <<>>
    /\ meta = NoMeta
    /\ records = PyNone
    /\ exc = NoCause
    /\ timeout_occurred = FALSE
    /\ rate_limit_occurred = FALSE
    /\ exitStatus = NotExited
    /\ att = NoAttempt
    /\ outcomes = <<>>
    /\ arrived = <<>>

ProducerDone ==
    /\ links = PyNone
    /\ cursor = 0
    /\ published = 0
    /\ ppc = "done"
    /\ sent = <<>>

Init ==
    /\ queue \in SeqsUpTo(Payloads, MaxQueue)
    /\ store \in InitialDocs
    /\ errlog = <<>>
    /\ streak = EmptyStore(store)
    /\ WorkerStarted
    /\ ProducerDone

-----------------------------------------------------------------------------
(* Actions of the worker                                                   *)
(*                                                                         *)
(* The calls inside the try block of on_message (the fetch, the load, the  *)
(* append, the save, the ack) can each end in a failure, which the except  *)
(* clause catches. A failure of a call outside the try block (log_error,   *)
(* the acks and nacks of lines 169, 189, 196 and 201) leaves the handler   *)
(* uncaught and ends the process with the delivery unresolved, as an       *)
(* interrupt does. time.sleep is only ever cut short by KeyboardInterrupt. *)

\* mutant of BrokerDeliver: no prefetch limit is in force (basic_qos not applied)
BrokerDeliverUnlimited ==
    /\ pc # "exited"
    /\ consuming /\ linkUp
    /\ queue # <<>>
    /\ LET d == [tag |-> nextTag, body |-> Head(queue)]
       IN /\ queue' = Tail(queue)
          /\ unacked' = unacked \cup {d}
          /\ inbox' = Append(inbox, d)
          /\ nextTag' = nextTag + 1
    /\ UNCHANGED <<consuming, linkUp, store, errlog, pc, locals, flags, exitStatus,
                   att, outcomes, hist, producer>>

\* The broker hands the head of the queue to the consumer, while the consumer
\* holds fewer unacknowledged deliveries than its prefetch limit (0: no limit).
\* q_get_videos.py:160, 204-208
BrokerDeliver ==
    /\ pc # "exited"
    /\ consuming /\ linkUp
    /\ queue # <<>>
    /\ prefetch_count = 0 \/ Cardinality(unacked) < prefetch_count
    /\ LET d == [tag |-> nextTag, body |-> Head(queue)]
       IN /\ queue' = Tail(queue)
          /\ unacked' = IF auto_ack THEN unacked ELSE unacked \cup {d}
          /\ inbox' = Append(inbox, d)
          /\ nextTag' = nextTag + 1
    /\ UNCHANGED <<consuming, linkUp, store, errlog, pc, locals, flags, exitStatus,
                   att, outcomes, hist, producer>>

\* mutant of OnMessage: the payload is tested for emptiness before it is trimmed
OnMessageUntrimmed ==
    /\ pc = "idle"
    /\ inbox # <<>>
    /\ LET d == Head(inbox)
           u == strip(decode(d.body))
           vid == OrText(video_id_from_url(u), UNKNOWN)
       IN /\ inbox' = Tail(inbox)
          /\ IF decode(d.body) = <<>>
             THEN /\ unacked' = Settled(d.tag)
                  /\ att' = [NewAttempt(d) EXCEPT !.empty = TRUE, !.acks = 1,
                                                  !.raw = d.body]
                  /\ outcomes' = Append(outcomes,
                        [id |-> vid, kind |-> "empty", at |-> "nowhere",
                         gap |-> att.slept])
                  /\ Broken
                  /\ pc' = "idle"
                  /\ UNCHANGED locals
             ELSE /\ delivery' = d
                  /\ url' = u
                  /\ video_id' = vid
                  /\ att' = NewAttempt(d)
                  /\ pc' = "fetch"
                  /\ UNCHANGED <<unacked, outcomes, hist, meta, records, exc>>
    /\ UNCHANGED <<queue, nextTag, consuming, linkUp, store, errlog, flags,
                   exitStatus, producer>>

\* on_message up to the try block: decode, trim, derive the id, ack an empty
\* payload and return.    q_get_videos.py:165-172
OnMessage ==
    /\ pc = "idle"
    /\ inbox # <<>>
    /\ LET d == Head(inbox)
           u == strip(decode(d.body))
           vid == OrText(video_id_from_url(u), UNKNOWN)
       IN /\ inbox' = Tail(inbox)
          /\ IF u = <<>>
             THEN /\ unacked' = Settled(d.tag)
                  /\ att' = [NewAttempt(d) EXCEPT !.empty = TRUE, !.acks = 1,
                                                  !.raw = d.body]
                  /\ outcomes' = Append(outcomes,
                        [id |-> vid, kind |-> "empty", at |-> "nowhere",
                         gap |-> att.slept])
                  /\ Broken
                  /\ pc' = "idle"
                  /\ UNCHANGED locals
             ELSE /\ delivery' = d
                  /\ url' = u
                  /\ video_id' = vid
                  /\ att' = NewAttempt(d)
                  /\ pc' = "fetch"
                  /\ UNCHANGED <<unacked, outcomes, hist, meta, records, exc>>
    /\ UNCHANGED <<queue, nextTag, consuming, linkUp, store, errlog, flags,
                   exitStatus, producer>>

\* meta = download_and_collect_metadata(url): a record, None, or a failure.
\* q_get_videos.py:174-175
Fetch ==
    /\ pc = "fetch"
    /\ \/ \E info \in InfosFor(url) \cup {NoInfo} :
            LET m == download_and_collect_metadata(info, url)
            IN /\ meta' = m
               /\ IF m # NoMeta
                  THEN /\ pc' = "load"
                       /\ att' = [att EXCEPT !.fetched = "record"]
                       /\ UNCHANGED hist
                  ELSE /\ pc' = "ack"
                       /\ att' = [att EXCEPT !.fetched = "nothing"]
                       /\ Broken
               /\ UNCHANGED exc
       \/ \E e \in FetchFailures :
            /\ exc' = e
            /\ pc' = "except"
            /\ att' = [att EXCEPT !.fetched = "raised", !.raisedAt = "fetch"]
            /\ Broken
            /\ UNCHANGED meta
    /\ UNCHANGED <<broker, store, errlog, delivery, url, video_id, records, flags,
                   exitStatus, outcomes, producer>>

\* records = load_metadata()    q_get_videos.py:176
Load ==
    /\ pc = "load"
    /\ \E oserror \in BOOLEAN :
         LET r == load_metadata(store, oserror)
         IN /\ oserror => store.kind # "missing"
            /\ IF r.raised
               THEN /\ exc' = r.exc
                    /\ pc' = "except"
                    /\ att' = [att EXCEPT !.raisedAt = "load"]
                    /\ Broken
                    /\ UNCHANGED records
               ELSE /\ records' = r.value
                    /\ pc' = "append"
                    /\ IF oserror THEN Broken ELSE UNCHANGED hist
                    /\ UNCHANGED <<exc, att>>
    /\ UNCHANGED <<broker, store, errlog, delivery, url, video_id, meta, flags,
                   exitStatus, outcomes, producer>>

\* records.append(meta)    q_get_videos.py:177
AppendRecord ==
    /\ pc = "append"
    /\ IF records.t = "list"
       THEN /\ records' = PyList(Append(records.items, meta))
            /\ pc' = "save"
            /\ UNCHANGED <<exc, att, hist>>
       ELSE /\ exc' = AttributeError
            /\ pc' = "except"
            /\ att' = [att EXCEPT !.raisedAt = "append"]
            /\ Broken
            /\ UNCHANGED records
    /\ UNCHANGED <<broker, store, errlog, delivery, url, video_id, meta, flags,
                   exitStatus, outcomes, producer>>

\* save_metadata(records): the write completes, or fails part-way.
\* q_get_videos.py:178, 59-61
Save ==
    /\ pc = "save"
    /\ \/ /\ store' = save_metadata(records)
          /\ arrived' = IF streak THEN Append(arrived, meta.id) ELSE arrived
          /\ pc' = "ack"
          /\ UNCHANGED <<exc, att, streak>>
       \/ \E e \in SaveFailures, left \in TruncatedDocs :
            /\ store' = left
            /\ exc' = e
            /\ pc' = "except"
            /\ att' = [att EXCEPT !.raisedAt = "save"]
            /\ Broken
    /\ UNCHANGED <<broker, errlog, delivery, url, video_id, meta, records, flags,
                   exitStatus, outcomes, producer>>

\* ch.basic_ack(delivery_tag=method.delivery_tag) of the success path: the ack
\* reaches the broker, or the connection is lost under the call and basic_ack
\* raises, with the ack frame sent (applied) or not. A lost connection makes
\* the broker requeue what is still unacknowledged.    q_get_videos.py:183
Ack ==
    /\ pc = "ack"
    /\ \/ /\ unacked' = Settled(delivery.tag)
          /\ att' = [att EXCEPT !.acks = @ + 1]
          /\ outcomes' = Append(outcomes,
                Outcome(IF att.fetched = "record" THEN "record" ELSE "nothing"))
          /\ pc' = "sleep"
          /\ UNCHANGED <<queue, inbox, consuming, linkUp, exc>>
       \/ \E e \in AckFailures, applied \in BOOLEAN :
            /\ linkUp' = FALSE
            /\ consuming' = FALSE
            /\ queue' = Requeued(IF applied THEN Settled(delivery.tag) ELSE unacked)
            /\ unacked' = {}
            /\ inbox' = <<>>
            /\ exc' = e
            /\ att' = [att EXCEPT !.acks = @ + 1, !.raisedAt = "ack"]
            /\ pc' = "except"
            /\ UNCHANGED outcomes
    /\ UNCHANGED <<nextTag, store, errlog, delivery, url, video_id, meta, records,
                   flags, exitStatus, hist, producer>>

\* mutant of Sleep: on_message returns without the delay
SleepSkipped ==
    /\ pc = "sleep"
    /\ pc' = "idle"
    /\ ResetLocals
    /\ UNCHANGED <<broker, store, errlog, flags, exitStatus, att, outcomes, hist,
                   producer>>

\* time.sleep(DELAY_BETWEEN_DOWNLOADS_SEC), then on_message returns.
\* q_get_videos.py:184, 202
Sleep ==
    /\ pc = "sleep"
    /\ att' = [att EXCEPT !.slept = @ + DELAY_BETWEEN_DOWNLOADS_SEC]
    /\ pc' = "idle"
    /\ ResetLocals
    /\ UNCHANGED <<broker, store, errlog, flags, exitStatus, outcomes, hist,
                   producer>>

\* mutant of NackAndStop: the halt path acks the delivery instead of nacking it
AckAndStop ==
    /\ att' = [att EXCEPT !.acks = @ + 1, !.verdict = Verdict(exc), !.exc = exc]
    /\ IF linkUp
       THEN /\ unacked' = Settled(delivery.tag)
            /\ pc' = "cancel"
            /\ UNCHANGED <<queue, inbox, consuming, exitStatus, locals>>
       ELSE /\ pc' = "exited"
            /\ exitStatus' = 1
            /\ ResetLocals
            /\ UNCHANGED <<queue, unacked, inbox, consuming>>

\* ch.basic_nack(delivery_tag, requeue=True), on the way to stop_consuming():
\* the nack puts the message back at the head of the queue, where the broker
\* may hand it out again at once, the consumer being still registered. On a
\* closed connection basic_nack raises out of the except clause and the
\* process dies with a traceback.    q_get_videos.py:189, 196
NackAndStop ==
    /\ att' = [att EXCEPT !.nacks = @ + 1, !.verdict = Verdict(exc), !.exc = exc]
    /\ IF linkUp
       THEN /\ queue' = Requeued(unacked \ Settled(delivery.tag))
            /\ unacked' = Settled(delivery.tag)
            /\ pc' = "cancel"
            /\ UNCHANGED <<inbox, consuming, exitStatus, locals>>
       ELSE /\ pc' = "exited"
            /\ exitStatus' = 1
            /\ ResetLocals
            /\ UNCHANGED <<queue, unacked, inbox, consuming>>

\* mutant of HandleTimeout: a timeout writes an Error Log line too
HandleTimeoutLogged ==
    /\ errlog' = Append(errlog, LogLine(video_id, exc))
    /\ timeout_occurred' = TRUE
    /\ NackAndStop
    /\ UNCHANGED rate_limit_occurred

\* q_get_videos.py:186-191
HandleTimeout ==
    /\ timeout_occurred' = TRUE
    /\ NackAndStop
    /\ UNCHANGED <<errlog, rate_limit_occurred>>

\* mutant of HandleRateLimited: the line is logged under the sentinel id
HandleRateLimitedAnonymous ==
    /\ errlog' = Append(errlog, LogLine(UNKNOWN, exc))
    /\ rate_limit_occurred' = TRUE
    /\ NackAndStop
    /\ UNCHANGED timeout_occurred

\* q_get_videos.py:192-198
HandleRateLimited ==
    /\ errlog' = Append(errlog, LogLine(video_id, exc))
    /\ rate_limit_occurred' = TRUE
    /\ NackAndStop
    /\ UNCHANGED timeout_occurred

\* q_get_videos.py:199-201
HandleOther ==
    /\ errlog' = Append(errlog, LogLine(video_id, exc))
    /\ att' = [att EXCEPT !.acks = @ + 1, !.verdict = Verdict(exc), !.exc = exc]
    /\ IF linkUp
       THEN /\ unacked' = Settled(delivery.tag)
            /\ pc' = "sleep"
            /\ UNCHANGED <<locals, exitStatus>>
       ELSE /\ pc' = "exited"
            /\ exitStatus' = 1
            /\ ResetLocals
            /\ UNCHANGED unacked
    /\ UNCHANGED <<queue, inbox, consuming, flags>>

\* except Exception as e: the dispatch on the classification.
\* q_get_videos.py:185-202
Except ==
    /\ pc = "except"
    /\ CASE Verdict(exc) = "Timeout" -> HandleTimeout
         [] Verdict(exc) = "RateLimited" -> HandleRateLimited
         [] OTHER -> HandleOther
    /\ outcomes' = Append(outcomes, Outcome(Verdict(exc)))
    /\ UNCHANGED <<nextTag, linkUp, store, hist, producer>>

\* mutant of StopConsuming: the consumer is left registered and on_message
\* returns to the consuming loop
StopConsumingIgnored ==
    /\ pc = "cancel"
    /\ pc' = "idle"
    /\ ResetLocals
    /\ UNCHANGED <<broker, store, errlog, flags, exitStatus, att, outcomes, hist,
                   producer>>

\* ch.stop_consuming(); return: the consumer is cancelled; what the broker
\* handed out since the nack is rejected by the client and goes back to the
\* head of the queue; start_consuming() returns.    q_get_videos.py:190-191, 197-198
StopConsuming ==
    /\ pc = "cancel"
    /\ consuming' = FALSE
    /\ queue' = Requeued(unacked)
    /\ unacked' = {}
    /\ inbox' = <<>>
    /\ pc' = "stopped"
    /\ ResetLocals
    /\ UNCHANGED <<nextTag, linkUp, store, errlog, flags, exitStatus, att,
                   outcomes, hist, producer>>

\* The broker cancels the consumer while the worker waits (the queue was
\* deleted): start_consuming() returns with no halt flag set.
\* q_get_videos.py:213
ConsumerCancelled ==
    /\ pc = "idle"
    /\ consuming /\ linkUp
    /\ inbox = <<>> /\ unacked = {}
    /\ queue' = <<>>
    /\ consuming' = FALSE
    /\ pc' = "stopped"
    /\ UNCHANGED <<unacked, inbox, nextTag, linkUp, store, errlog, locals, flags,
                   exitStatus, att, outcomes, hist, producer>>

\* start_consuming() has returned: the exit status.    q_get_videos.py:215-225
Exit ==
    /\ pc = "stopped"
    /\ exitStatus' = IF timeout_occurred THEN 1
                     ELSE IF rate_limit_occurred THEN 1
                     ELSE 0
    /\ pc' = "exited"
    /\ UNCHANGED <<broker, store, errlog, locals, flags, att, outcomes, hist,
                   producer>>

\* Ctrl+C (or a kill) at any point: KeyboardInterrupt is no Exception, so it
\* leaves on_message and start_consuming uncaught; the broker requeues what the
\* dead connection held unacknowledged.    q_get_videos.py:185, 212-213
Interrupt ==
    /\ pc # "exited"
    /\ pc' = "exited"
    /\ exitStatus' = 130
    /\ queue' = Requeued(unacked)
    /\ unacked' = {}
    /\ inbox' = <<>>
    /\ consuming' = FALSE
    /\ linkUp' = FALSE
    /\ IF pc \in {"load", "append", "save"} THEN Broken ELSE UNCHANGED hist
    /\ ResetLocals
    /\ UNCHANGED <<nextTag, store, errlog, flags, att, outcomes, producer>>

Next ==
    \/ BrokerDeliver
    \/ OnMessage
    \/ Fetch
    \/ Load
    \/ AppendRecord
    \/ Save
    \/ Ack
    \/ Sleep
    \/ Except
    \/ StopConsuming
    \/ ConsumerCancelled
    \/ Exit
    \/ Interrupt

Spec == Init /\ [][Next]_vars

-----------------------------------------------------------------------------
(* Acknowledgment discipline *)

\* the handler is not between the receipt of a delivery and its return
HandlerReturned == pc \in {"idle", "stopped"}

\* C1, as claimed: a delivery is acked only if the fetch produced a record for
\* it, or its payload was empty after trimming, or the failure caught while
\* handling it was classified Other.
AckOnlyOnThreeGrounds ==
    att.acks > 0 =>
        \/ att.fetched = "record"
        \/ att.empty
        \/ att.verdict = "Other"

\* C1, amended: a delivery is acked only if the fetch produced a record for it,
\* or the fetch returned nothing (no record, no failure), or its payload was
\* empty after trimming, or the failure caught while handling it was
\* classified Other.
AckOnlyOnFourGrounds ==
    att.acks > 0 =>
        \/ att.fetched = "record"
        \/ att.fetched = "nothing"
        \/ att.empty
        \/ att.verdict = "Other"

\* C1 witness: the fetch returned nothing and the delivery was acked
AckedAfterFetchReturnedNothing ==
    /\ pc = "sleep"
    /\ att.fetched = "nothing"
    /\ att.acks = 1
    /\ att.verdict = "None"
    /\ unacked = {}

\* C2, as claimed: an attempt whose caught failure is classified Timeout or
\* RateLimited issues one nack with requeue=true and no ack on its delivery,
\* whichever step of the try block raised the failure.
HaltNacksAndNeverAcks ==
    att.verdict \in {"Timeout", "RateLimited"} =>
        /\ att.nacks = 1
        /\ att.requeue
        /\ att.acks = 0

\* C3, as claimed: every delivery handed to on_message is resolved exactly once
\* (one ack or one nack, never both, never two, never none), and that before
\* the next delivery is pulled.
ResolvedExactlyOnce ==
    att.tag # 0 =>
        /\ att.acks + att.nacks <= 1
        /\ HandlerReturned => att.acks + att.nacks = 1

\* C4: the consumer never holds more than one unacknowledged delivery; it acks
\* manually and its prefetch limit is exactly one.
AtMostOneUnacked ==
    /\ Cardinality(unacked) <= 1
    /\ Len(inbox) <= 1
    /\ pc \in {"fetch", "load", "append", "save", "ack"} => inbox = <<>>
    /\ auto_ack = FALSE
    /\ prefetch_count = 1

\* C4 witness: one delivery is being processed while the queue holds more
OneInFlightOthersWaiting ==
    /\ pc = "save"
    /\ unacked = {delivery}
    /\ Len(queue) >= 2
    /\ inbox = <<>>

-----------------------------------------------------------------------------
(* The store *)

IdsOf(recs) == [i \in 1..Len(recs) |-> recs[i].id]

Distinct(q) == \A i, j \in 1..Len(q) : i # j => q[i] # q[j]

\* C5: starting from an empty or missing store, after N consecutive fetches
\* that returned records with pairwise distinct ids, each followed by the
\* worker's load, append and save, load() returns exactly N records whose ids
\* are those N ids in arrival order.
StoreAppendInvariant ==
    (streak /\ Distinct(arrived)) =>
        LET r == load_metadata(store, FALSE)
        IN /\ ~r.raised
           /\ r.value.t = "list"
           /\ Len(r.value.items) = Len(arrived)
           /\ IdsOf(r.value.items) = arrived

\* C5 witness: two successful fetches with distinct ids have been saved
TwoDistinctRecordsSaved ==
    /\ streak
    /\ pc = "idle"
    /\ Len(arrived) = 2
    /\ arrived[1] # arrived[2]
    /\ att.fetched = "record"

\* C6, as claimed: a record that is in the store stays in it, unchanged and at
\* the same position, whatever the worker does next.
RecordsStay ==
    [][\A i \in 1..Len(RecordsIn(store)) :
          /\ Len(RecordsIn(store')) >= i
          /\ RecordsIn(store')[i] = RecordsIn(store)[i]]_vars

\* C7, as claimed: load() returns an empty sequence and does not raise whenever
\* the store document is not a well-formed array of records.
LoadNeverRaisesOnBadDocument ==
    ~WellFormedArray(store) =>
        /\ pc = "append" => records = PyList(<<>>)
        /\ ~(pc = "except" /\ att.raisedAt = "load")

\* C8, as claimed: a failure of the append or of save() is not classified: no
\* verdict, no Error Log line, no ack and no nack follow it, and the worker
\* handles no further delivery.
StoreFailureIsFatal ==
    att.raisedAt \in {"append", "save"} =>
        /\ att.verdict = "None"
        /\ att.acks = 0
        /\ att.nacks = 0
        /\ pc \in {"except", "exited"}

\* C9, as claimed: the store holds at most one record per id.
OneRecordPerId == Distinct(IdsOf(RecordsIn(store)))

-----------------------------------------------------------------------------
(* The classifier on a bounded set of failures: the handler has caught a   *)
(* failure of the fetch and is about to dispatch on it.                    *)

\* the `msg` attribute and the str() of the failures tried
MessagePairs ==
    { <<None, MSG_READ_TIMED_OUT>>, <<None, MSG_HTTP_429>>, <<None, MSG_UNAVAILABLE>>,
      <<None, MSG_CONN_TIMEOUT>>, <<MSG_RATE_LIMIT, MSG_RATE_LIMIT>>, <<None, MSG_BOTH>>,
      <<MSG_UNAVAILABLE, MSG_READ_TIMED_OUT>> }

\* failures with no cause (c = NoCause) or with the cause c
FailuresOver(causes) ==
    { Failure("DownloadError", p[1], p[2], c) : p \in MessagePairs, c \in causes }
    \cup { Failure("TimeoutError", None, MSG_UNAVAILABLE, c) : c \in causes }

RECURSIVE FailuresUpTo(_)
\* the failures whose chain of causes has at most n links
FailuresUpTo(n) ==
    IF n = 0 THEN FailuresOver({NoCause})
    ELSE FailuresOver(FailuresUpTo(n - 1) \cup {NoCause})

InitClassify ==
    LET d == [tag |-> 1, body |-> encode(URL_AAA)]
    IN /\ queue = <<>>
       /\ unacked = {d}
       /\ inbox = <<>>
       /\ nextTag = 2
       /\ consuming = TRUE
       /\ linkUp = TRUE
       /\ declared = "durable"
       /\ store = DocMissing
       /\ errlog = <<>>
       /\ pc = "except"
       /\ delivery = d
       /\ url = URL_AAA
       /\ video_id = OrText(video_id_from_url(URL_AAA), UNKNOWN)
       /\ meta = NoMeta
       /\ records = PyNone
       /\ exc \in FailuresUpTo(MaxCauseDepth)
       /\ timeout_occurred = FALSE
       /\ rate_limit_occurred = FALSE
       /\ exitStatus = NotExited
       /\ att = [NoAttempt EXCEPT !.tag = d.tag, !.fetched = "raised",
                                  !.raisedAt = "fetch"]
       /\ outcomes = <<>>
       /\ streak = FALSE
       /\ arrived = <<>>
       /\ ProducerDone

NextClassify ==
    \/ Except
    \/ Sleep
    \/ StopConsuming
    \/ Exit

SpecClassify == InitClassify /\ [][NextClassify]_vars

RECURSIVE ChainOf(_)
\* a failure followed by its cause, the cause of its cause, ...
ChainOf(f) == IF f.cause = NoCause THEN <<f>> ELSE <<f>> \o ChainOf(f.cause)

TimeoutSignature(f) ==
    \/ f.type \in TimeoutTypes
    \/ Contains(MessageOf(f), SIG_TIMEOUT)
    \/ Contains(MessageOf(f), SIG_TIMED_OUT)

RateLimitSignature(f) ==
    \/ Contains(MessageOf(f), SIG_429)
    \/ Contains(MessageOf(f), SIG_RATE_LIMIT)
    \/ Contains(MessageOf(f), SIG_TOO_MANY)

\* the verdict the claim describes, looking at the first n failures of the chain
ClaimedVerdict(f, n) ==
    LET all == ChainOf(f)
        chain == SubSeq(all, 1, IF n < Len(all) THEN n ELSE Len(all))
    IN IF \E i \in 1..Len(chain) : TimeoutSignature(chain[i]) THEN "Timeout"
       ELSE IF \E i \in 1..Len(chain) : RateLimitSignature(chain[i]) THEN "RateLimited"
       ELSE "Other"

Plain(text) == Failure("DownloadError", None, text, NoCause)

\* C10: the verdict dispatched on is Timeout when the failure or a cause of it
\* is a timeout signal or has "timeout" / "timed out" in its message, else
\* RateLimited when the message of the failure or of a cause has "429", "rate
\* limit" or "too many requests", else Other; one verdict for every failure;
\* on failures with at most one cause, unwrapping one level gives the same
\* verdict; and the four example failures get Timeout, RateLimited, Other
\* and Timeout.
ClassifierVerdict ==
    /\ att.verdict # "None" =>
          /\ att.verdict \in {"Timeout", "RateLimited", "Other"}
          /\ att.verdict = ClaimedVerdict(att.exc, Len(ChainOf(att.exc)))
          /\ Len(ChainOf(att.exc)) <= 2 => att.verdict = ClaimedVerdict(att.exc, 2)
    /\ Verdict(Plain(MSG_READ_TIMED_OUT)) = "Timeout"
    /\ Verdict(Plain(MSG_HTTP_429)) = "RateLimited"
    /\ Verdict(Plain(MSG_UNAVAILABLE)) = "Other"
    /\ Verdict(Failure("DownloadError", None, MSG_UNAVAILABLE, Plain(MSG_READ_TIMED_OUT)))
         = "Timeout"

\* C10 witness: a failure with a rate-limit signature of its own and a timeout
\* signature only in its cause was dispatched as Timeout
BothSignaturesGiveTimeout ==
    /\ att.verdict = "Timeout"
    /\ pc = "stopped"
    /\ timeout_occurred
    /\ RateLimitSignature(att.exc)
    /\ ~TimeoutSignature(att.exc)
    /\ att.exc.cause # NoCause
    /\ TimeoutSignature(att.exc.cause)

-----------------------------------------------------------------------------
(* The Error Log *)

\* the outcomes that are verdicts RateLimited or Other
LoggedOutcomes(os) == {i \in 1..Len(os) : os[i].kind \in {"RateLimited", "Other"}}

\* a step that ends a delivery attempt with the outcome `kinds` allows
Ends(kinds) ==
    /\ Len(outcomes') = Len(outcomes) + 1
    /\ outcomes'[Len(outcomes')].kind \in kinds

\* C11: the Error Log grows by exactly one line, naming the delivery's video
\* id, in the step that classifies a failure RateLimited or Other, and by no
\* line in any other step (Timeout, success, a fetch that returns nothing, the
\* empty no-op included); lines already written are never changed or removed;
\* so the number of lines added in a run is the number of its RateLimited and
\* Other outcomes.
ErrorLogGrowth ==
    [][/\ Len(errlog') >= Len(errlog)
       /\ SubSeq(errlog', 1, Len(errlog)) = errlog
       /\ Len(errlog') - Len(errlog) =
             (IF Ends({"RateLimited", "Other"}) THEN 1 ELSE 0)
       /\ Ends({"RateLimited", "Other"}) =>
             errlog'[Len(errlog')].video_id = outcomes'[Len(outcomes')].id
       /\ Len(errlog') = Cardinality(LoggedOutcomes(outcomes'))]_vars

\* C11 witness: a run of three outcomes, a record saved, an Other failure and a
\* RateLimited halt, has added two lines
TwoLinesForThreeOutcomes ==
    /\ Len(outcomes) = 3
    /\ outcomes[1].kind = "record"
    /\ outcomes[2].kind = "Other"
    /\ outcomes[3].kind = "RateLimited"
    /\ Len(errlog) = 2
    /\ errlog[1].video_id = outcomes[2].id
    /\ errlog[2].video_id = outcomes[3].id

-----------------------------------------------------------------------------
(* The exit status *)

\* the halt reason recorded during the run
HaltReason ==
    IF timeout_occurred THEN "Timeout"
    ELSE IF rate_limit_occurred THEN "RateLimited"
    ELSE "None"

\* C12, as claimed: the worker process exits with a non-zero status if and
\* only if the halt reason recorded during the run was Timeout or RateLimited;
\* when the loop ended for any other reason (an external shutdown signal, a run
\* with only Other failures) the status is zero.
ExitStatusTellsHaltReason ==
    pc = "exited" => (exitStatus # 0 <=> HaltReason # "None")

-----------------------------------------------------------------------------
(* After a halt decision *)

\* C13: once a halt reason is recorded (a Timeout or RateLimited verdict), the
\* worker starts no other delivery in that run: on_message is not entered
\* again, no fetch is invoked, the store and the Error Log are not written and
\* no further outcome is produced, although the nack with requeue=true lets
\* the broker hand the same task out again before the consumer is cancelled.
\* The worker only cancels the consumer and exits.
NoWorkAfterHalt ==
    [][HaltReason # "None" =>
          /\ store' = store
          /\ errlog' = errlog
          /\ att'.tag = att.tag
          /\ att'.fetched = att.fetched
          /\ outcomes' = outcomes
          /\ pc' \in {"cancel", "stopped", "exited"}]_vars

\* C13 witness: after the nack of the halting delivery the broker handed the
\* task out again, the consumer was then cancelled, and the task is back at
\* the head of the queue, not processed
RedeliveredButNotProcessed ==
    /\ pc = "stopped"
    /\ HaltReason # "None"
    /\ att.nacks = 1
    /\ nextTag = att.tag + 2
    /\ queue # <<>>
    /\ unacked = {}
    /\ outcomes[Len(outcomes)].kind \in {"Timeout", "RateLimited"}

-----------------------------------------------------------------------------
(* The producer: main() of a_q_put_videos.py *)

\* longest list in videos_1.json
MaxLinks == 3

\* JSON values an entry of the list can be
JStr(s) == [t |-> "str", s |-> s, n |-> 0]
JInt(n) == [t |-> "int", s |-> <<>>, n |-> n]
JNull == [t |-> "null", s |-> <<>>, n |-> 0]

\* bool(v)
Truthy(v) ==
    CASE v.t = "str" -> v.s # <<>>
      [] v.t = "int" -> v.n # 0
      [] OTHER -> FALSE

\* mutant of Skipped: a string that is blank once trimmed is skipped too
SkippedIfBlank(v) == ~Truthy(v) \/ v.t # "str" \/ strip(v.s) = <<>>

\* `not url or not isinstance(url, str)`    a_q_put_videos.py:50
Skipped(v) == ~Truthy(v) \/ v.t # "str"

\* pika.DeliveryMode.Persistent    a_q_put_videos.py:57
Persistent == 2

\* a task whose text is not ASCII
URL_ACUTE == <<"h", "t", "t", "p", "s", ":", "/", "/", "x", "/", E_ACUTE>>

Entries ==
    { JStr(URL_AAA), JStr(URL_ACUTE), JStr(BLANK), JStr(SPACES), JInt(0), JInt(7),
      JNull }

\* videos_1.json does not exist
NoFile == [t |-> "missing", items |-> <<>>]

\* `not links`
NoLinks(v) == v.t = "None" \/ (v.t = "list" /\ v.items = <<>>)

\* The producer is started; no worker runs (an earlier one has exited). The
\* queue may not exist yet, or hold a task of an earlier run.
InitProducer ==
    /\ queue \in {<<>>, <<encode(URL_BBB)>>}
    /\ declared \in (IF queue = <<>> THEN {"no", "durable"} ELSE {"durable"})
    /\ links \in {NoFile, PyNone} \cup {PyList(l) : l \in SeqsUpTo(Entries, MaxLinks)}
    /\ cursor = 0
    /\ published = 0
    /\ ppc = "start"
    /\ sent = <<>>
    /\ unacked = {}
    /\ inbox = <<>>
    /\ nextTag = 1
    /\ consuming = FALSE
    /\ linkUp = FALSE
    /\ store = DocMissing
    /\ errlog = <<>>
    /\ pc = "exited"
    /\ delivery = NoDelivery
    /\ url = <<>>
    /\ video_id = <<>>
    /\ meta = NoMeta
    /\ records = PyNone
    /\ exc = NoCause
    /\ timeout_occurred = FALSE
    /\ rate_limit_occurred = FALSE
    /\ exitStatus = 0
    /\ att = NoAttempt
    /\ outcomes = <<>>
    /\ streak = FALSE
    /\ arrived = <<>>

\* open and json.load, `if not links: return`, connect, queue_declare(durable=True),
\* published = 0.    a_q_put_videos.py:27-48
ProducerMain ==
    /\ ppc = "start"
    /\ IF links.t = "missing"
       THEN /\ ppc' = "crashed"
            /\ UNCHANGED <<declared, cursor, published>>
       ELSE IF NoLinks(links)
       THEN /\ ppc' = "done"
            /\ UNCHANGED <<declared, cursor, published>>
       ELSE /\ declared' = "durable"
            /\ cursor' = 1
            /\ published' = 0
            /\ ppc' = "loop"
    /\ UNCHANGED <<queue, links, sent, worker>>

\* one turn of `for url in links`: skip the entry, or publish it as a
\* persistent message to the queue; basic_publish raises when the connection
\* is lost.    a_q_put_videos.py:49-60
ProducerPublish ==
    /\ ppc = "loop"
    /\ cursor <= Len(links.items)
    /\ LET entry == links.items[cursor]
       IN \/ /\ Skipped(entry)
             /\ cursor' = cursor + 1
             /\ UNCHANGED <<queue, sent, published, ppc>>
          \/ /\ ~Skipped(entry)
             /\ queue' = Append(queue, encode(entry.s))
             /\ sent' = Append(sent, [body |-> encode(entry.s),
                                      delivery_mode |-> Persistent])
             /\ published' = published + 1
             /\ cursor' = cursor + 1
             /\ UNCHANGED ppc
          \/ /\ ~Skipped(entry)
             /\ ppc' = "crashed"
             /\ UNCHANGED <<queue, sent, published, cursor>>
    /\ UNCHANGED <<declared, links, worker>>

\* the list is exhausted: conn.close(), the count is printed.
\* a_q_put_videos.py:62-63
ProducerClose ==
    /\ ppc = "loop"
    /\ cursor > Len(links.items)
    /\ ppc' = "done"
    /\ UNCHANGED <<queue, declared, links, cursor, published, sent, worker>>

NextProducer ==
    \/ ProducerMain
    \/ ProducerPublish
    \/ ProducerClose

SpecProducer == InitProducer /\ [][NextProducer]_vars

\* an entry that is a non-empty string
NonEmptyString(v) == v.t = "str" /\ Len(v.s) > 0

RECURSIVE WellFormed(_)
\* the non-empty strings of a list, in list order
WellFormed(items) ==
    IF items = <<>> THEN <<>>
    ELSE IF NonEmptyString(Head(items)) THEN <<Head(items).s>> \o WellFormed(Tail(items))
    ELSE WellFormed(Tail(items))

\* the texts of the messages published, in order
TextsSent == [i \in 1..Len(sent) |-> decode(sent[i].body)]

\* C14: when the producer has finished, the messages it published are the
\* entries of the list that are non-empty strings, in list order, each once,
\* and their count is the count printed; every message is persistent, goes to
\* the tail of the queue declared durable, and carries the UTF-8 bytes of its
\* entry; while the loop runs that holds of the entries already passed; an
\* empty, null or missing list publishes nothing.
ProducerPublishesWellFormed ==
    /\ published = Len(sent)
    /\ \A i \in 1..Len(sent) :
          /\ sent[i].delivery_mode = Persistent
          /\ sent[i].body = encode(decode(sent[i].body))
    /\ Len(sent) > 0 => declared = "durable"
    /\ Len(queue) >= Len(sent)
    /\ SubSeq(queue, Len(queue) - Len(sent) + 1, Len(queue))
          = [i \in 1..Len(sent) |-> sent[i].body]
    /\ ppc = "loop" => TextsSent = WellFormed(SubSeq(links.items, 1, cursor - 1))
    /\ (ppc = "done" /\ links.t = "list") =>
          /\ TextsSent = WellFormed(links.items)
          /\ published = Len(WellFormed(links.items))
    /\ (links.t # "list" \/ links.items = <<>>) => sent = <<>>

\* C14 witness: a finished run over a list of three entries, with a
\* whitespace-only string and a non-ASCII string published and a non-string
\* entry skipped
TwoOfThreePublished ==
    /\ ppc = "done"
    /\ Len(links.items) = 3
    /\ published = 2
    /\ \E i \in 1..3 : links.items[i].t # "str"
    /\ \E i \in 1..2 : decode(sent[i].body) = SPACES
    /\ \E i \in 1..2 : decode(sent[i].body) = URL_ACUTE

-----------------------------------------------------------------------------
(* The end-to-end scenario: the queue holds the AAA task, an empty message *)
(* and the BBB task, the store holds no record, the Error Log is empty.    *)

ID_AAA == <<"A", "A", "A">>
ID_BBB == <<"B", "B", "B">>

InitScenario ==
    /\ queue = <<encode(URL_AAA), encode(BLANK), encode(URL_BBB)>>
    /\ store \in {DocMissing, DocText(SPACES), DocJson(PyList(<<>>))}
    /\ errlog = <<>>
    /\ streak = TRUE
    /\ WorkerStarted
    /\ ProducerDone

SpecScenario == InitScenario /\ [][Next]_vars

\* the run went as the scenario says: the fetch of AAA returned a record, which
\* was saved and acked; the empty message was a no-op; the fetch of BBB raised
\* a failure classified RateLimited; and the process has exited
ScenarioRan ==
    /\ pc = "exited"
    /\ Len(outcomes) = 3
    /\ outcomes[1].id = ID_AAA /\ outcomes[1].kind = "record"
    /\ outcomes[2].kind = "empty"
    /\ outcomes[3].id = ID_BBB /\ outcomes[3].kind = "RateLimited"
    /\ outcomes[3].at = "fetch"

\* C15: when the scenario has run, the store holds exactly one record and its
\* id is AAA, the Error Log has gained exactly one line and it names BBB, the
\* BBB message is in the queue for redelivery while the AAA and the empty
\* message are gone, and the exit status is not zero.
ScenarioEndsAsExpected ==
    ScenarioRan =>
        /\ WellFormedArray(store)
        /\ IdsOf(RecordsIn(store)) = <<ID_AAA>>
        /\ Len(errlog) = 1
        /\ errlog[1].video_id = ID_BBB
        /\ queue = <<encode(URL_BBB)>>
        /\ unacked = {}
        /\ exitStatus # NotExited
        /\ exitStatus # 0

\* C15 witness: the scenario has run and start_consuming() returned, so that
\* the status is the one line 220 gives
ScenarioRanToExit ==
    /\ ScenarioRan
    /\ exitStatus = 1
    /\ rate_limit_occurred
    /\ queue = <<encode(URL_BBB)>>

-----------------------------------------------------------------------------
(* The inter-item delay *)

\* the outcomes after which on_message sleeps: a success (a record saved, or a
\* fetch that returned nothing) and an item failure
Throttled == {"record", "nothing", "Other"}

\* on_message is handling a delivery whose outcome is not yet known
Handling == pc \in {"fetch", "load", "append", "save", "ack", "except"}

\* C16: the fixed delay is taken after every success and after every Other
\* outcome, and is complete before on_message returns, hence before the next
\* delivery is received by it; it is never taken after a Timeout or
\* RateLimited verdict. So a delivery that follows a success or an item failure
\* is received one full delay after the ack of that one.
DelayBetweenItems ==
    /\ \A i \in 2..Len(outcomes) :
          outcomes[i - 1].kind \in Throttled =>
              outcomes[i].gap = DELAY_BETWEEN_DOWNLOADS_SEC
    /\ (Handling /\ outcomes # <<>> /\ outcomes[Len(outcomes)].kind \in Throttled) =>
          att.gap = DELAY_BETWEEN_DOWNLOADS_SEC
    /\ (pc = "idle" /\ outcomes # <<>> /\ outcomes[Len(outcomes)].kind \in Throttled) =>
          /\ att.slept = DELAY_BETWEEN_DOWNLOADS_SEC
          /\ att.acks = 1
    /\ att.verdict \in {"Timeout", "RateLimited"} => att.slept = 0
    /\ att.slept \in {0, DELAY_BETWEEN_DOWNLOADS_SEC}

\* C16 witness: an item failure, then a success received one delay after it,
\* then a halt with no delay
DelayedThenHalted ==
    /\ Len(outcomes) = 3
    /\ outcomes[1].kind = "Other"
    /\ outcomes[2].kind = "record"
    /\ outcomes[2].gap = DELAY_BETWEEN_DOWNLOADS_SEC
    /\ outcomes[3].kind = "Timeout"
    /\ outcomes[3].gap = DELAY_BETWEEN_DOWNLOADS_SEC
    /\ att.slept = 0
    /\ pc = "stopped"

-----------------------------------------------------------------------------
(* Save before ack *)

\* C17, as claimed: the ack of the success path is issued only after save()
\* has returned, so in every reachable state a delivery that was acked on the
\* success path with a record produced has that record in the store.
AckedRecordsAreStored ==
    \A i \in 1..Len(outcomes) :
        outcomes[i].kind = "record" =>
            \E j \in 1..Len(RecordsIn(store)) : RecordsIn(store)[j].id = outcomes[i].id

-----------------------------------------------------------------------------
(* The empty payload *)

\* on_message is entered with the delivery at the head of the inbox
Received == inbox # <<>> /\ att'.tag = Head(inbox).tag /\ att'.tag # att.tag

\* C18: a delivery whose payload is empty once decoded and trimmed (a
\* whitespace-only payload included, which the producer does publish) is acked
\* in the step that receives it and the worker is back waiting for a delivery:
\* no fetch, no change of the store or of the Error Log, no halt flag set, no
\* delay, no requeue.
EmptyPayloadIsNoOp ==
    /\ ~Skipped(JStr(SPACES))
    /\ strip(decode(encode(SPACES))) = <<>>
    /\ [][/\ (Received /\ strip(decode(Head(inbox).body)) = <<>>) =>
               /\ att'.empty
               /\ att'.acks = 1 /\ att'.nacks = 0
               /\ Head(inbox) \notin unacked'
               /\ pc' = "idle"
               /\ store' = store
               /\ errlog' = errlog
               /\ timeout_occurred' = timeout_occurred
               /\ rate_limit_occurred' = rate_limit_occurred
               /\ queue' = queue
               /\ exitStatus' = exitStatus
          /\ (Received /\ strip(decode(Head(inbox).body)) # <<>>) => ~att'.empty
          /\ att'.empty =>
               /\ att'.fetched = "no"
               /\ att'.verdict = "None"
               /\ att'.slept = 0]_vars

\* C18 witness: a whitespace-only payload was received and acked, and the
\* worker waits for the next delivery with more tasks in the queue
WhitespaceOnlyAcked ==
    /\ pc = "idle"
    /\ att.empty
    /\ att.raw = encode(SPACES)
    /\ att.acks = 1
    /\ unacked = {}
    /\ queue # <<>>
    /\ outcomes[Len(outcomes)].kind = "empty"

-----------------------------------------------------------------------------
(* Progress: the worker left to run. Every call returns or raises, nothing *)
(* interrupts the process, the broker keeps the queue, and a step that can *)
(* be taken is taken.                                                      *)

InitLive ==
    /\ queue \in SeqsUpTo(Payloads, MaxQueue)
    /\ store \in {DocMissing, DocUndecodable, DocJson(PyList(<<REC_AAA>>))}
    /\ errlog = <<>>
    /\ streak = EmptyStore(store)
    /\ WorkerStarted
    /\ ProducerDone

NextLive ==
    \/ BrokerDeliver
    \/ OnMessage
    \/ Fetch
    \/ Load
    \/ AppendRecord
    \/ Save
    \/ Ack
    \/ Sleep
    \/ Except
    \/ StopConsuming
    \/ Exit

SpecLive == InitLive /\ [][NextLive]_vars /\ WF_vars(NextLive)

Halts == {"Timeout", "RateLimited"}

\* a fetch of this run raised a failure classified Timeout or RateLimited
FetchHalted ==
    \E i \in 1..Len(outcomes) : outcomes[i].kind \in Halts /\ outcomes[i].at = "fetch"

\* nothing is left in the queue or in flight, and no delivery was nacked
AllConsumed ==
    /\ queue = <<>>
    /\ unacked = {}
    /\ inbox = <<>>
    /\ \A i \in 1..Len(outcomes) : outcomes[i].kind \notin Halts

\* on_message holds a delivery it has neither acked nor nacked
Unresolved == Handling /\ att.acks + att.nacks = 0

\* the delivery on_message was last called with has been acked or nacked
Resolved == att.tag # 0 /\ att.acks + att.nacks >= 1

\* the process has exited with a non-zero status and the task of the last
\* outcome, the halt, is at the head of the queue
ExitedWithTaskBack ==
    /\ pc = "exited"
    /\ exitStatus # 0
    /\ queue # <<>>
    /\ OrText(video_id_from_url(strip(decode(Head(queue)))), UNKNOWN)
          = outcomes[Len(outcomes)].id

\* C19: every delivery the worker receives is eventually acked or
\* nacked; a run in which no fetch raises a Timeout or RateLimited failure
\* eventually consumes every task in the queue, each one acked; a run that
\* meets such a failure eventually reaches process exit with the failing task
\* back in the queue.
ProgressAsClaimed ==
    /\ Unresolved ~> Resolved
    /\ ([]~FetchHalted) => <>AllConsumed
    /\ FetchHalted ~> ExitedWithTaskBack

====
